---------------------------- MODULE Spec2Model ----------------------------
(***************************************************************************)
(* Task inference by entropy for hypernetwork-generated classifiers.       *)
(*                                                                         *)
(*   src/entropy.py              get_task_and_class_prediction_based_on_   *)
(*                               logits and the evaluation driver          *)
(*                               calculate_entropy_and_predict_classes_    *)
(*                               separately                                *)
(*   src/VanillaNets/AlexNet.py  AlexNet.forward and its weight check      *)
(*                                                                         *)
(* Arithmetic.  torch computes in float32.  The model keeps the special    *)
(* values of that arithmetic (NaN, -inf, +inf) and computes the finite     *)
(* values exactly on a decimal grid: probabilities and logarithms in       *)
(* hundredths, the interval factor in tenths, so an uncertainty score is   *)
(* an integer number of 1e-5.  Products and sums of grid values are exact  *)
(* integers; the rounding of float32 products is not modelled.             *)
(***************************************************************************)
EXTENDS Integers, Sequences, FiniteSets, TLC

VARIABLES
    \* get_task_and_class_prediction_based_on_logits
    inferenced_logits_of_all_tasks, setup, dataset, vanilla_entropy,
    no_of_sample, task_entropies, predicted_tasks, predicted_classes, pc,
    \* AlexNet.forward
    weights, no_weights, distilled_params, condition, fwd_pc,
    \* calculate_entropy_and_predict_classes_separately
    experiment_models, number_of_model, task, X_test, y_test,
    logits_outputs_for_different_tasks, results, csv_files, drv_pc,
    \* the collaborator calls made in the current pass of the loop over task
    collaborator_calls

predVars == <<inferenced_logits_of_all_tasks, setup, dataset, vanilla_entropy,
              no_of_sample, task_entropies, predicted_tasks, predicted_classes, pc>>
fwdVars == <<weights, no_weights, distilled_params, condition, fwd_pc>>
drvVars == <<experiment_models, number_of_model, task, X_test, y_test,
             logits_outputs_for_different_tasks, results, csv_files, drv_pc,
             collaborator_calls>>
vars == <<predVars, fwdVars, drvVars>>

--------------------------------------------------------------------------
(* Bounds of the model *)

\* the largest number of samples (axis 1) of a logits tensor
MaxSamples == 2
\* the number of output heads (axis 3) of a logits tensor
NumOutputs == 2

\* the candidate tasks (axis 0) of a logits tensor: two tasks throughout
Tasks == {0, 1}
NumTasks == Cardinality(Tasks)
Outputs == 0 .. (NumOutputs - 1)
Slots == 0 .. 2

--------------------------------------------------------------------------
(* float32 values *)

Fin(x) == [kind |-> "fin", v |-> x]
NaN == [kind |-> "nan", v |-> 0]
NegInf == [kind |-> "-inf", v |-> 0]
PosInf == [kind |-> "+inf", v |-> 0]

IsFinite(a) == a.kind = "fin"

\* a * b of IEEE arithmetic: 0 * inf is NaN, NaN propagates
FMul(a, b) ==
    IF a.kind = "nan" \/ b.kind = "nan" THEN NaN
    ELSE IF IsFinite(a) /\ IsFinite(b) THEN Fin(a.v * b.v)
    ELSE LET sa == IF a.kind = "-inf" \/ (IsFinite(a) /\ a.v < 0) THEN -1
                   ELSE IF IsFinite(a) /\ a.v = 0 THEN 0 ELSE 1
             sb == IF b.kind = "-inf" \/ (IsFinite(b) /\ b.v < 0) THEN -1
                   ELSE IF IsFinite(b) /\ b.v = 0 THEN 0 ELSE 1
         IN  IF sa * sb = 0 THEN NaN
             ELSE IF sa * sb < 0 THEN NegInf ELSE PosInf

\* a + b of IEEE arithmetic: inf - inf is NaN, NaN propagates
FAdd(a, b) ==
    IF a.kind = "nan" \/ b.kind = "nan" THEN NaN
    ELSE IF IsFinite(a) /\ IsFinite(b) THEN Fin(a.v + b.v)
    ELSE IF IsFinite(a) THEN b
    ELSE IF IsFinite(b) THEN a
    ELSE IF a.kind = b.kind THEN a ELSE NaN

\* a < b of IEEE arithmetic: every comparison with NaN is false
FLess(a, b) ==
    /\ a.kind # "nan" /\ b.kind # "nan"
    /\ \/ a.kind = "-inf" /\ b.kind # "-inf"
       \/ b.kind = "+inf" /\ a.kind # "+inf"
       \/ IsFinite(a) /\ IsFinite(b) /\ a.v < b.v

\* a == b of IEEE arithmetic: NaN equals nothing
FEq(a, b) ==
    /\ a.kind # "nan" /\ b.kind # "nan"
    /\ a.kind = b.kind
    /\ IsFinite(a) => a.v = b.v

FLeq(a, b) == FLess(a, b) \/ FEq(a, b)

--------------------------------------------------------------------------
(* F.softmax, torch.log, torch.sum, argmin, argmax *)

MaxOf(row) == CHOOSE x \in {row[k] : k \in DOMAIN row} :
                  \A k \in DOMAIN row : row[k] <= x

\* exp(-d) in thousandths; float32 underflows to exactly 0 below exp(-103.97).
\* The grid cannot hold exp(-d) for 3 < d < 104: the inputs keep clear of it.
ExpNeg(d) ==
    CASE d = 0 -> 1000
      [] d = 1 -> 368
      [] d = 2 -> 135
      [] d = 3 -> 50
      [] d >= 104 -> 0

RECURSIVE SumTo(_, _)
\* f[0] + ... + f[n - 1], integers
SumTo(f, n) == IF n = 0 THEN 0 ELSE SumTo(f, n - 1) + f[n - 1]

\* F.softmax(row, dim=-1), in hundredths: exp(x - max) / sum
Softmax(row) ==
    LET e == [k \in DOMAIN row |-> ExpNeg(MaxOf(row) - row[k])]
        s == SumTo(e, Cardinality(DOMAIN row))
    IN  [k \in DOMAIN row |-> (e[k] * 100) \div s]

RECURSIVE LnCenti(_)
\* ln(p / 100) in hundredths for p in 1..100: reduce by e, then the series
\* ln((1 - y) / (1 + y)) = -2 (y + y^3/3 + y^5/5)
LnCenti(p) ==
    IF p * 2718 <= 100000
    THEN LnCenti((p * 2718) \div 1000) - 100
    ELSE LET y == ((100 - p) * 1000) \div (100 + p)
             y3 == (y * y * y) \div 1000000
             y5 == (y3 * y * y) \div 1000000
         IN  -((2 * (y + (y3 \div 3) + (y5 \div 5))) \div 10)

\* torch.log of a probability: log(0) is -inf
TorchLog(p) == IF p = 0 THEN NegInf ELSE Fin(LnCenti(p))

RECURSIVE FSumTo(_, _)
\* torch.sum over the last axis
FSumTo(f, n) == IF n = 0 THEN Fin(0) ELSE FAdd(FSumTo(f, n - 1), f[n - 1])

RECURSIVE ArgMinFrom(_, _, _)
\* the reduction of torch.argmin: a candidate replaces the best so far when it
\* is NaN and the best is not, or when it is strictly smaller; an equal value
\* or a later NaN never replaces an earlier one
ArgMinFrom(s, best, c) ==
    IF c \notin DOMAIN s THEN best
    ELSE IF s[best].kind = "nan" THEN best
    ELSE IF s[c].kind = "nan" \/ FLess(s[c], s[best])
         THEN ArgMinFrom(s, c, c + 1)
         ELSE ArgMinFrom(s, best, c + 1)

TorchArgMin(s) == ArgMinFrom(s, 0, 1)

\* Tensor.argmax() of finite logits: the first index of the largest entry
TorchArgMax(row) ==
    CHOOSE k \in DOMAIN row :
        /\ row[k] = MaxOf(row)
        /\ \A j \in DOMAIN row : row[j] = MaxOf(row) => k <= j


--------------------------------------------------------------------------
(* get_task_and_class_prediction_based_on_logits (src/entropy.py) *)

\* 1 / 0.0001
EpsInv == 10000

\* all_task_single_output_sample = inferenced_logits_of_all_tasks[:, i, :, :]
SampleSliceFirst(logits, i) == [c \in DOMAIN logits |-> logits[c][0]]
SampleSlice(logits, i) == [c \in DOMAIN logits |-> logits[c][i]]

AbsInt(x) == IF x < 0 THEN -x ELSE x

\* factor = 1 / (0.0001 + (upper_logits - lower_logits).abs()), in tenths,
\* rounded to the nearest; 1.0 in vanilla mode
FactorUpperMinusMiddle(block, vanilla, k) ==
    IF ~vanilla
    THEN LET w == AbsInt(block[2][k] - block[1][k])
             den == 1 + EpsInv * w
         IN  (2 * 10 * EpsInv + den) \div (2 * den)
    ELSE 10
FactorIgnoringMode(block, vanilla, k) ==
    LET w == AbsInt(block[2][k] - block[0][k])
        den == 1 + EpsInv * w
    IN  (2 * 10 * EpsInv + den) \div (2 * den)
Factor(block, vanilla, k) ==
    IF ~vanilla
    THEN LET w == AbsInt(block[2][k] - block[0][k])
             den == 1 + EpsInv * w
         IN  (2 * 10 * EpsInv + den) \div (2 * den)
    ELSE 10

\* softmaxed_inferred_task = F.softmax(sample[no_of_inferred_task, 1, :])
SoftmaxedInferredTask(block) == Softmax(block[1])

\* -1 * torch.sum(factor * softmaxed * torch.log(softmaxed), dim=-1)
TaskEntropy(block, vanilla) ==
    LET p == SoftmaxedInferredTask(block)
        term == [k \in DOMAIN p |->
                    FMul(Fin(Factor(block, vanilla, k) * p[k]), TorchLog(p[k]))]
    IN  FMul(Fin(-1), FSumTo(term, Cardinality(DOMAIN p)))

\* the loop over no_of_inferred_task filling task_entropies
TaskEntropies(slice, vanilla) ==
    [c \in DOMAIN slice |-> TaskEntropy(slice[c], vanilla)]

\* selected_task_id = torch.argmin(task_entropies)
SelectedTaskId(entropies) == TorchArgMin(entropies)

\* target_output = all_task_single_output_sample[selected_task_id, 1, :]
TargetOutputLower(slice, task_id) == slice[task_id][0]
TargetOutput(slice, task_id) == slice[task_id][1]

\* output_relative_class = target_output.argmax().item()
OutputRelativeClass(slice, task_id) == TorchArgMax(TargetOutput(slice, task_id))

SupportedDatasets == {"CIFAR100_FeCAM_setup", "PermutedMNIST", "SplitMNIST"}

\* the call of the class translator: the translators are collaborators, a
\* translated class is the call that produced it
Translate(relative, su, ds, task_id) ==
    IF ds = "CIFAR100_FeCAM_setup"
    THEN [fn |-> "translate_output_CIFAR_classes",
          relative |-> relative, setup |-> su, task |-> task_id]
    ELSE [fn |-> "translate_output_MNIST_classes",
          relative |-> relative, task |-> task_id,
          mode |-> IF ds = "PermutedMNIST" THEN "permuted" ELSE "split"]

\* number_of_samples = inferenced_logits_of_all_tasks.shape[1]
NumberOfSamplesButLast(logits) ==
    IF Cardinality(DOMAIN logits[0]) = 0 THEN 0
    ELSE Cardinality(DOMAIN logits[0]) - 1
NumberOfSamples(logits) == Cardinality(DOMAIN logits[0])

\* one pass of the loop over no_of_sample, on the loop's state st
LoopBody(st, logits, su, ds, vanilla) ==
    LET slice == SampleSlice(logits, st.no_of_sample)
        entropies == TaskEntropies(slice, vanilla)
        selected_task_id == SelectedTaskId(entropies)
        output_relative_class == OutputRelativeClass(slice, selected_task_id)
    IN  IF ds \in SupportedDatasets
        THEN [pc |-> "loop",
              no_of_sample |-> st.no_of_sample + 1,
              task_entropies |-> entropies,
              predicted_tasks |-> Append(st.predicted_tasks, selected_task_id),
              predicted_classes |->
                  Append(st.predicted_classes,
                         Translate(output_relative_class, su, ds,
                                   selected_task_id))]
        ELSE \* raise ValueError("Wrong name of the dataset!")
             [pc |-> "ValueError",
              no_of_sample |-> st.no_of_sample,
              task_entropies |-> entropies,
              predicted_tasks |-> Append(st.predicted_tasks, selected_task_id),
              predicted_classes |-> st.predicted_classes]

\* the state at the start of the function
LoopStart ==
    [pc |-> "loop", no_of_sample |-> 0, task_entropies |-> <<>>,
     predicted_tasks |-> <<>>, predicted_classes |-> <<>>]

RECURSIVE RunLoop(_, _, _, _, _)
\* the whole call: the loop, then the return of the two tensors
RunLoop(st, logits, su, ds, vanilla) ==
    IF st.pc # "loop" THEN st
    ELSE IF st.no_of_sample < NumberOfSamples(logits)
    THEN RunLoop(LoopBody(st, logits, su, ds, vanilla), logits, su, ds, vanilla)
    ELSE [st EXCEPT !.pc = "returned"]

GetTaskAndClassPredictionBasedOnLogits(logits, su, ds, vanilla) ==
    RunLoop(LoopStart, logits, su, ds, vanilla)

--------------------------------------------------------------------------
(* The logits tensors the calls are made with *)

Flat(x) == [k \in Outputs |-> x]
PeakFirst(x) == [k \in Outputs |-> IF k = 0 THEN x ELSE 0]
PeakLast(x) == [k \in Outputs |-> IF k = NumOutputs - 1 THEN x ELSE 0]

\* [lower, middle, upper] logits of one sample under one task's weights
Block(lo, mid, up) == [s \in Slots |-> CASE s = 0 -> lo [] s = 1 -> mid [] s = 2 -> up]

\* an interval collapsed to a point, uniform middle logits
BlockFlat == Block(Flat(0), Flat(0), Flat(0))
\* lower = upper, different from the middle logits, which prefer the last head
BlockPoint == Block(PeakFirst(1), PeakLast(2), PeakFirst(1))
\* upper below lower by 1 in every head
BlockWide == Block(Flat(1), PeakLast(1), Flat(0))
\* the middle logits are so far apart that a softmax probability is exactly 0
BlockFar == Block(Flat(0), PeakFirst(200), Flat(0))

Blocks == {BlockFlat, BlockPoint, BlockWide, BlockFar}

Tensors(n) == [Tasks -> [0 .. (n - 1) -> Blocks]]

DatasetNames == SupportedDatasets \cup {"SubsetImageNet"}

--------------------------------------------------------------------------
(* Spec: one call of get_task_and_class_prediction_based_on_logits *)

\* no call of AlexNet.forward is under way
ForwardIdle ==
    /\ weights = [none |-> TRUE, shapes |-> <<>>]
    /\ no_weights = FALSE
    /\ distilled_params = FALSE
    /\ condition = FALSE
    /\ fwd_pc = "idle"

\* no call of calculate_entropy_and_predict_classes_separately is under way
DriverIdle ==
    /\ experiment_models = [number_of_tasks |-> NumTasks,
                            dataset |-> "PermutedMNIST", vanilla_entropy |-> FALSE]
    /\ number_of_model = {}
    /\ task = 0
    /\ X_test = 0
    /\ y_test = <<>>
    /\ logits_outputs_for_different_tasks = <<>>
    /\ results = <<>>
    /\ csv_files = <<>>
    /\ collaborator_calls = <<>>
    /\ drv_pc = "idle"

Init ==
    /\ ForwardIdle
    /\ DriverIdle
    /\ \E n \in 0 .. MaxSamples : inferenced_logits_of_all_tasks \in Tensors(n)
    /\ setup = NumTasks
    /\ dataset \in DatasetNames
    /\ vanilla_entropy \in BOOLEAN
    /\ no_of_sample = 0
    /\ task_entropies = <<>>
    /\ predicted_tasks = <<>>
    /\ predicted_classes = <<>>
    /\ pc = "loop"

LoopState ==
    [pc |-> pc, no_of_sample |-> no_of_sample, task_entropies |-> task_entropies,
     predicted_tasks |-> predicted_tasks, predicted_classes |-> predicted_classes]

SetLoopState(st) ==
    /\ pc' = st.pc
    /\ no_of_sample' = st.no_of_sample
    /\ task_entropies' = st.task_entropies
    /\ predicted_tasks' = st.predicted_tasks
    /\ predicted_classes' = st.predicted_classes

\* one iteration of "for no_of_sample in range(number_of_samples)"
PredictSample ==
    /\ pc = "loop"
    /\ no_of_sample < NumberOfSamples(inferenced_logits_of_all_tasks)
    /\ SetLoopState(LoopBody(LoopState, inferenced_logits_of_all_tasks,
                             setup, dataset, vanilla_entropy))
    /\ UNCHANGED <<inferenced_logits_of_all_tasks, setup, dataset, vanilla_entropy>>
    /\ UNCHANGED <<fwdVars, drvVars>>

\* return predicted_tasks, predicted_classes
Return ==
    /\ pc = "loop"
    /\ no_of_sample = NumberOfSamples(inferenced_logits_of_all_tasks)
    /\ pc' = "returned"
    /\ UNCHANGED <<inferenced_logits_of_all_tasks, setup, dataset, vanilla_entropy,
                   no_of_sample, task_entropies, predicted_tasks, predicted_classes>>
    /\ UNCHANGED <<fwdVars, drvVars>>

Next == PredictSample \/ Return

Spec == Init /\ [][Next]_vars

--------------------------------------------------------------------------
(* AlexNet.forward (src/VanillaNets/AlexNet.py) *)

\* num_classes=10
NumClasses == 10
\* in_shape=(32, 32, 3): height and width, channels
InSize == 32
InChannels == 3

\* self._param_shapes: _architectures["cifar"] with num_classes written in
ParamShapes ==
    << <<96, 3, 11, 11>>, <<96>>, <<256, 96, 5, 5>>, <<256>>,
       <<384, 256, 3, 3>>, <<384>>, <<384, 384, 3, 3>>, <<384>>,
       <<256, 384, 3, 3>>, <<256>>, <<4096, 9216>>, <<4096>>,
       <<4096, 4096>>, <<4096>>, <<NumClasses, 4096>>, <<NumClasses>> >>

\* np.all(np.equal(s, list(weights[i].shape))): np.equal broadcasts two
\* arrays of lengths a and b when a = b, a = 1 or b = 1, and raises
\* ValueError otherwise; np.all of an empty array is True
NpAllEqual(s, shape) ==
    IF Len(s) = Len(shape)
    THEN IF \A j \in 1 .. Len(s) : s[j] = shape[j] THEN "True" ELSE "False"
    ELSE IF Len(s) = 1
    THEN IF \A j \in 1 .. Len(shape) : shape[j] = s[1] THEN "True" ELSE "False"
    ELSE IF Len(shape) = 1
    THEN IF \A j \in 1 .. Len(s) : s[j] = shape[1] THEN "True" ELSE "False"
    ELSE "ValueError"

RECURSIVE CheckShapesFrom(_, _)
\* assert len(weights) == len(shapes); then the loop of asserts over
\* enumerate(shapes), from entry i on: the first failing entry ends the call
CheckShapesFrom(w, i) ==
    IF i > Len(ParamShapes) THEN "ok"
    ELSE LET r == NpAllEqual(ParamShapes[i], w[i])
         IN  IF r = "True" THEN CheckShapesFrom(w, i + 1)
             ELSE IF r = "False" THEN "AssertionError"
             ELSE "ValueError"

CheckShapes(w) ==
    IF Len(w) # Len(ParamShapes) THEN "AssertionError" ELSE CheckShapesFrom(w, 1)

\* F.conv2d(h, w, bias=b, stride) on h of c channels and size x size, then
\* F.max_pool2d(kernel_size=3, stride=2) when pool: the channels and size of
\* the result; ok is FALSE when torch raises RuntimeError
ConvBlock(h, w, b, stride, pool) ==
    IF ~h.ok THEN h
    ELSE IF \/ Len(w) # 4
            \/ Len(b) # 1
    THEN [ok |-> FALSE, c |-> 0, size |-> 0]
    ELSE IF \/ w[2] # h.c
            \/ b[1] # w[1]
            \/ w[3] > h.size \/ w[4] > h.size
    THEN [ok |-> FALSE, c |-> 0, size |-> 0]
    ELSE LET conv == ((h.size - w[3]) \div stride) + 1
         IN  IF ~pool THEN [ok |-> TRUE, c |-> w[1], size |-> conv]
             ELSE IF conv < 3 THEN [ok |-> FALSE, c |-> 0, size |-> 0]
             ELSE [ok |-> TRUE, c |-> w[1], size |-> ((conv - 3) \div 2) + 1]

\* F.linear(h, w, bias=b) on h of n features: b is (out_features) or ()
Linear(h, w, b) ==
    IF ~h.ok THEN h
    ELSE IF Len(w) # 2 \/ Len(b) > 1
    THEN [ok |-> FALSE, n |-> 0]
    ELSE IF w[2] # h.n \/ (Len(b) = 1 /\ b[1] # w[1])
    THEN [ok |-> FALSE, n |-> 0]
    ELSE [ok |-> TRUE, n |-> w[1]]

\* the layers of forward on one input image, with the weights w
Layers(w) ==
    LET x == [ok |-> TRUE, c |-> InChannels, size |-> InSize]
        h1 == ConvBlock(x, w[1], w[2], 4, TRUE)
        h2 == ConvBlock(h1, w[3], w[4], 1, TRUE)
        h3 == ConvBlock(h2, w[5], w[6], 1, FALSE)
        h4 == ConvBlock(h3, w[7], w[8], 1, FALSE)
        h5 == ConvBlock(h4, w[9], w[10], 1, TRUE)
        \* h = h.reshape(-1, weights[8].size()[1])
        flat == IF ~h5.ok THEN [ok |-> FALSE, n |-> 0]
                ELSE IF Len(w[9]) < 2 THEN [ok |-> FALSE, n |-> 0]
                ELSE IF (h5.c * h5.size * h5.size) % w[9][2] # 0
                THEN [ok |-> FALSE, n |-> 0]
                ELSE [ok |-> TRUE, n |-> w[9][2]]
        f1 == Linear(flat, w[11], w[12])
        f2 == Linear(f1, w[13], w[14])
        f3 == Linear(f2, w[15], w[16])
    IN  IF f3.ok THEN "returned" ELSE "RuntimeError"

\* shapes a caller may supply in place of the declared shape s
Replacements(s) ==
    { <<>>,                                   \* a 0-dimensional tensor
      <<s[1]>>,                               \* its first dimension alone
      <<s[1], s[1]>>,                         \* its first dimension twice
      [s EXCEPT ![1] = s[1] + 1],             \* one row more
      Append(s, 1),                           \* a trailing dimension of 1
      SubSeq(s, 1, Len(s) - 1) } \ {s}        \* its last dimension dropped

\* the weight lists the calls are made with: the declared shapes, one entry
\* replaced, the last entry dropped, or one entry more
WeightLists ==
    {ParamShapes}
    \cup UNION {{[ParamShapes EXCEPT ![i] = r] :
                     r \in Replacements(ParamShapes[i])} :
                    i \in 1 .. Len(ParamShapes)}
    \cup {SubSeq(ParamShapes, 1, Len(ParamShapes) - 1),
          Append(ParamShapes, <<NumClasses>>)}

\* a list is malformed when it is not exactly the declared list of shapes
Malformed(w) == w # ParamShapes

InitForward ==
    /\ \/ weights = [none |-> TRUE, shapes |-> <<>>]
       \/ \E w \in WeightLists : weights = [none |-> FALSE, shapes |-> w]
    /\ no_weights \in BOOLEAN
    /\ distilled_params \in BOOLEAN
    /\ condition \in BOOLEAN
    /\ fwd_pc = "called"

\* lines 168-192: the argument checks and the check of the weight shapes
ForwardCheck ==
    /\ fwd_pc = "called"
    /\ fwd_pc' =
           IF distilled_params THEN "ValueError"
           ELSE IF condition THEN "ValueError"
           ELSE IF no_weights /\ weights.none THEN "Exception"
           ELSE IF weights.none THEN "layers"
           ELSE LET r == CheckShapes(weights.shapes)
                IN  IF r = "ok" THEN "layers" ELSE r
    /\ weights' = IF weights.none /\ ~no_weights
                  THEN [none |-> TRUE, shapes |-> ParamShapes]   \* self._weights
                  ELSE weights
    /\ UNCHANGED <<no_weights, distilled_params, condition>>

\* lines 194-237: the convolutional and the fully-connected layers
ForwardLayers ==
    /\ fwd_pc = "layers"
    /\ fwd_pc' = Layers(weights.shapes)
    /\ UNCHANGED <<weights, no_weights, distilled_params, condition>>

--------------------------------------------------------------------------
(* Claims about get_task_and_class_prediction_based_on_logits *)

\* the sample the loop processed last, and what it appended for it
LastSample == no_of_sample - 1
Processed == Len(predicted_tasks) > 0
LastTask == predicted_tasks[Len(predicted_tasks)]

\* C1: the predicted task of a sample is an index whose uncertainty score is
\* minimal among all candidates (no score is below it, it is at most every
\* score), and it is the lowest index with that score
C1_ArgminLowestIndex ==
    Processed =>
        /\ \A c \in Tasks : FLeq(task_entropies[LastTask], task_entropies[c])
        /\ \A c \in Tasks :
               c < LastTask => FLess(task_entropies[LastTask], task_entropies[c])

\* C3: every uncertainty score is finite and non-negative
C3_ScoresFiniteNonNegative ==
    \A c \in DOMAIN task_entropies :
        IsFinite(task_entropies[c]) /\ task_entropies[c].v >= 0

\* C4: with a dataset name that is not supported the call never returns
\* predictions, whatever the number of samples: it ends in the ValueError
C4_UnsupportedDatasetFails ==
    dataset \notin SupportedDatasets => pc \in {"loop", "ValueError"}

\* the tensor with the lower and upper logits of the tasks in T replaced
WithBounds(logits, T, lo, up) ==
    [c \in DOMAIN logits |->
        [i \in DOMAIN logits[c] |->
            IF c \in T THEN Block(lo, logits[c][i][1], up) ELSE logits[c][i]]]

BoundRows == {Flat(0), PeakFirst(1), PeakLast(3)}

\* C7: in vanilla mode a tensor that agrees on every middle slot and differs
\* in the lower and upper slots yields the same predicted tasks and classes
C7_VanillaReadsMiddleOnly ==
    (vanilla_entropy /\ pc = "returned") =>
        \A T \in (SUBSET Tasks) \ {{}} : \A lo \in BoundRows : \A up \in BoundRows :
            LET other == GetTaskAndClassPredictionBasedOnLogits(
                             WithBounds(inferenced_logits_of_all_tasks, T, lo, up),
                             setup, dataset, vanilla_entropy)
            IN  /\ other.pc = "returned"
                /\ other.predicted_tasks = predicted_tasks
                /\ other.predicted_classes = predicted_classes

\* C7 witness: a vanilla call that returned predictions for a tensor whose
\* bounds, had they been scored, select other tasks
C7_Witness ==
    /\ vanilla_entropy /\ pc = "returned" /\ Processed
    /\ GetTaskAndClassPredictionBasedOnLogits(
           inferenced_logits_of_all_tasks, setup, dataset, FALSE).predicted_tasks
       # predicted_tasks

Collapsed(block) == block[0] = block[2]

\* C8: in interval mode the score of a task whose lower and upper logits are
\* equal is 10000 times the vanilla score of its middle logits, and a sample
\* whose tasks are all such gets the task vanilla mode selects
C8_CollapsedIntervalScales ==
    (~vanilla_entropy /\ Processed) =>
        LET slice == [c \in Tasks |->
                         inferenced_logits_of_all_tasks[c][Len(predicted_tasks) - 1]]
        IN  /\ \A c \in Tasks :
                   Collapsed(slice[c]) =>
                       task_entropies[c] =
                           FMul(Fin(10000), TaskEntropy(slice[c], TRUE))
            /\ (\A c \in Tasks : Collapsed(slice[c])) =>
                   LastTask = TorchArgMin([c \in Tasks |-> TaskEntropy(slice[c], TRUE)])

\* C8 witness: an interval-mode sample whose tasks all have lower = upper,
\* different from the middle logits, with two different finite scores
C8_Witness ==
    /\ ~vanilla_entropy /\ Processed
    /\ LET slice == [c \in Tasks |->
                        inferenced_logits_of_all_tasks[c][Len(predicted_tasks) - 1]]
       IN  /\ \A c \in Tasks : Collapsed(slice[c])
           /\ \E c \in Tasks : slice[c][0] # slice[c][1]
           /\ \A c \in Tasks : IsFinite(task_entropies[c])
           /\ LastTask = 1
           /\ FLess(task_entropies[1], task_entropies[0])

\* the tensor that holds sample i alone
OnlySample(logits, i) == [c \in DOMAIN logits |-> [j \in {0} |-> logits[c][i]]]

\* the tensor with its samples in the order perm[0], perm[1], ...
Reordered(logits, perm) ==
    [c \in DOMAIN logits |-> [j \in DOMAIN perm |-> logits[c][perm[j]]]]

SamplePermutations(S) == {f \in [S -> S] : \A a, b \in S : f[a] = f[b] => a = b}

\* C9: what the call appends for sample i is what it yields for the tensor
\* holding that sample alone, and a call on the reordered tensor returns the
\* same results, each at the place of its sample
C9_PerSampleIndependent ==
    /\ \A i \in 0 .. (Len(predicted_tasks) - 1) :
           LET alone == GetTaskAndClassPredictionBasedOnLogits(
                            OnlySample(inferenced_logits_of_all_tasks, i),
                            setup, dataset, vanilla_entropy)
           IN  /\ alone.predicted_tasks = <<predicted_tasks[i + 1]>>
               /\ i < Len(predicted_classes) =>
                      alone.predicted_classes = <<predicted_classes[i + 1]>>
    /\ pc = "returned" =>
           \A perm \in SamplePermutations(0 .. (no_of_sample - 1)) :
               LET other == GetTaskAndClassPredictionBasedOnLogits(
                                Reordered(inferenced_logits_of_all_tasks, perm),
                                setup, dataset, vanilla_entropy)
               IN  /\ other.pc = "returned"
                   /\ \A j \in DOMAIN perm :
                          /\ other.predicted_tasks[j + 1] = predicted_tasks[perm[j] + 1]
                          /\ other.predicted_classes[j + 1] =
                                 predicted_classes[perm[j] + 1]

\* C9 witness: a returned batch of at least two samples whose first two
\* samples differ in their logits, their predicted task and their class
C9_Witness ==
    /\ pc = "returned" /\ no_of_sample >= 2
    /\ predicted_tasks[1] # predicted_tasks[2]
    /\ predicted_classes[1] # predicted_classes[2]

\* C10: the class of sample i is the translation of (r, k), k the task
\* predicted for i and r the first index of the largest middle logit of
\* sample i under task k: the CIFAR translator gets (r, setup, k), the MNIST
\* translator (r, k) and the mode of the dataset
C10_ClassFromSelectedMiddle ==
    \A i \in 0 .. (Len(predicted_classes) - 1) :
        LET k == predicted_tasks[i + 1]
            middle == inferenced_logits_of_all_tasks[k][i][1]
            r == predicted_classes[i + 1].relative
            call == predicted_classes[i + 1]
        IN  /\ r \in Outputs
            /\ \A j \in Outputs : middle[j] <= middle[r]
            /\ \A j \in Outputs : j < r => middle[j] < middle[r]
            /\ dataset = "CIFAR100_FeCAM_setup" =>
                   call = [fn |-> "translate_output_CIFAR_classes",
                           relative |-> r, setup |-> setup, task |-> k]
            /\ dataset = "PermutedMNIST" =>
                   call = [fn |-> "translate_output_MNIST_classes",
                           relative |-> r, task |-> k, mode |-> "permuted"]
            /\ dataset = "SplitMNIST" =>
                   call = [fn |-> "translate_output_MNIST_classes",
                           relative |-> r, task |-> k, mode |-> "split"]

\* C10 witness: a class was predicted from task 1, whose middle logits have
\* their largest entry elsewhere than its lower logits and than task 0's
\* middle logits
C10_Witness ==
    /\ Len(predicted_classes) > 0
    /\ predicted_tasks[1] = 1
    /\ LET b == inferenced_logits_of_all_tasks[1][0]
           a == inferenced_logits_of_all_tasks[0][0]
       IN  /\ TorchArgMax(b[1]) # TorchArgMax(b[0])
           /\ TorchArgMax(b[1]) # TorchArgMax(a[1])
           /\ predicted_classes[1].relative = TorchArgMax(b[1])

\* C11: every dataset name the evaluation script documents as an option is
\* accepted: on a tensor with at least one sample the call does not end in
\* the wrong-dataset-name error
C11_DocumentedDatasetsAccepted ==
    (dataset \in DatasetNames
        /\ Cardinality(DOMAIN inferenced_logits_of_all_tasks[0]) >= 1) =>
            pc # "ValueError"

\* the task and the translator call the code owes sample i of the tensor
ExpectedTask(i) ==
    TorchArgMin([c \in Tasks |->
        TaskEntropy(inferenced_logits_of_all_tasks[c][i], vanilla_entropy)])
ExpectedClass(i) ==
    Translate(TorchArgMax(inferenced_logits_of_all_tasks[ExpectedTask(i)][i][1]),
              setup, dataset, ExpectedTask(i))

\* C14: a step of the call appends at most one task prediction and leaves the
\* predictions of the earlier samples as they are; when the call returns, both
\* sequences have one entry per sample of axis 1, entry i is the prediction
\* for sample i, and every predicted task is an index of axis 0
C14_OnePredictionPerSample ==
    [][/\ Len(predicted_tasks') \in {Len(predicted_tasks), Len(predicted_tasks) + 1}
       /\ \A i \in 1 .. Len(predicted_tasks) :
              predicted_tasks'[i] = predicted_tasks[i]
       /\ pc' = "returned" =>
              LET n == Cardinality(DOMAIN inferenced_logits_of_all_tasks[0])
              IN  /\ Len(predicted_tasks') = n
                  /\ Len(predicted_classes') = n
                  /\ \A i \in 1 .. n :
                         /\ predicted_tasks'[i] \in 0 .. (NumTasks - 1)
                         /\ predicted_tasks'[i] = ExpectedTask(i - 1)
                         /\ predicted_classes'[i] = ExpectedClass(i - 1)]_vars

\* C14 witness: the call returned for two samples whose predicted tasks differ
C14_Witness ==
    /\ pc = "returned"
    /\ Len(predicted_tasks) = 2
    /\ predicted_tasks[1] # predicted_tasks[2]

--------------------------------------------------------------------------
(* SpecForward: one call of AlexNet.forward *)

\* no call of get_task_and_class_prediction_based_on_logits is under way
PredictionIdle ==
    /\ inferenced_logits_of_all_tasks = [c \in Tasks |-> <<>>]
    /\ setup = NumTasks
    /\ dataset = "PermutedMNIST"
    /\ vanilla_entropy = FALSE
    /\ no_of_sample = 0
    /\ task_entropies = <<>>
    /\ predicted_tasks = <<>>
    /\ predicted_classes = <<>>
    /\ pc = "idle"

InitFwd == InitForward /\ PredictionIdle /\ DriverIdle

NextFwd ==
    \/ ForwardCheck /\ UNCHANGED <<predVars, drvVars>>
    \/ ForwardLayers /\ UNCHANGED <<predVars, drvVars>>

SpecForward == InitFwd /\ [][NextFwd]_vars

--------------------------------------------------------------------------
(* Claims about AlexNet.forward *)

\* C2: a call with an explicit weights list that is not exactly the declared
\* list of shapes ends at the shape check: the list never passes the check
\* into the layers and the call never returns logits
C2_MalformedWeightsRejected ==
    (~weights.none /\ Malformed(weights.shapes)) =>
        fwd_pc \notin {"layers", "returned"}

--------------------------------------------------------------------------
(* calculate_entropy_and_predict_classes_separately (src/entropy.py) *)

\* classes per task of the CIFAR-100 setup: the 100 classes in equal groups
ClassesPerTask(su) == 100 \div su

\* the global class a translator call returns: the CIFAR setup offsets the
\* relative class by the task's group, split MNIST has 2 classes per task,
\* permuted MNIST keeps the label space of every task
ClassValue(call) ==
    IF call.fn = "translate_output_CIFAR_classes"
    THEN call.relative + call.task * ClassesPerTask(call.setup)
    ELSE IF call.mode = "split" THEN 2 * call.task + call.relative
    ELSE call.relative

\* the ground-truth classes a test set of task t may hold
Labels(ds, n_tasks, t) ==
    IF ds \in SupportedDatasets
    THEN {ClassValue(Translate(r, n_tasks, ds, t)) : r \in {0, 1}}
    ELSE {0, 1}

\* the logits a candidate task may give a sample: uniform, confident, or so
\* confident that a softmax probability is exactly 0
DriverBlocks == {BlockFlat, BlockPoint, BlockFar}

\* the logits a candidate task may give a batch of n samples: the same for
\* every sample, or uniform and confident by turns
DriverBatches(n) ==
    {[i \in 0 .. (n - 1) |-> b] : b \in DriverBlocks}
    \cup {[i \in 0 .. (n - 1) |-> IF i % 2 = 0 THEN BlockFlat ELSE BlockPoint]}

\* count * 100.0 / n in floating point: 0 / 0 is NaN
Percent(count, n) ==
    IF n = 0 THEN [kind |-> "nan", num |-> 0, den |-> 0]
    ELSE [kind |-> "fin", num |-> count * 100, den |-> n]

\* torch.stack(logits_outputs_for_different_tasks)
Stack(list) == [c \in 0 .. (Len(list) - 1) |-> list[c + 1]]

\* the experiment bundles and the module global the calls are made with:
\* number_of_model is a global of the script's main block, {} where the
\* function is called without that block having run
InitDriver ==
    /\ experiment_models \in
           [number_of_tasks : {NumTasks}, dataset : DatasetNames,
            vanilla_entropy : BOOLEAN]
    /\ number_of_model \in {{}, {0}}
    /\ task = 0
    /\ X_test = 0
    /\ y_test = <<>>
    /\ logits_outputs_for_different_tasks = <<>>
    /\ results = <<>>
    /\ csv_files = <<>>
    /\ collaborator_calls = <<>>
    /\ drv_pc = "loop"

\* X_test, y_test, gt_tasks = extract_test_set_from_single_task(...): a test
\* set of n samples with its labels, or the failure of the collaborator
ExtractTestSet ==
    /\ drv_pc = "loop"
    /\ task < experiment_models.number_of_tasks
    /\ \/ /\ \E n \in 0 .. MaxSamples :
                /\ X_test' = n
                /\ y_test' \in [0 .. (n - 1) ->
                                   Labels(experiment_models.dataset,
                                          experiment_models.number_of_tasks, task)]
                /\ collaborator_calls' =
                       <<[fn |-> "extract_test_set_from_single_task",
                          task |-> task, X_test |-> n]>>
          /\ logits_outputs_for_different_tasks' = <<>>
          /\ drv_pc' = "infer"
       \/ /\ drv_pc' = "CollaboratorError"
          /\ UNCHANGED <<X_test, y_test, logits_outputs_for_different_tasks,
                         collaborator_calls>>
    /\ UNCHANGED <<experiment_models, number_of_model, task, results, csv_files>>

\* the loop variable of "for inferenced_task in range(number_of_tasks)": one
\* entry is appended per pass
InferencedTask == Len(logits_outputs_for_different_tasks)

\* one pass of "for inferenced_task in range(number_of_tasks)": the logits
\* of X_test under the weights of the next candidate task, appended
ProduceLogits ==
    /\ drv_pc = "infer"
    /\ Len(logits_outputs_for_different_tasks) < experiment_models.number_of_tasks
    /\ \/ /\ \E logits \in DriverBatches(X_test) :
                /\ logits_outputs_for_different_tasks' =
                       Append(logits_outputs_for_different_tasks, logits)
                /\ collaborator_calls' =
                       Append(collaborator_calls,
                              [fn |-> "get_target_network_representation",
                               X_test |-> X_test,
                               inferenced_task |-> InferencedTask,
                               logits |-> logits])
          /\ UNCHANGED drv_pc
       \/ /\ drv_pc' = "CollaboratorError"
          /\ UNCHANGED <<logits_outputs_for_different_tasks, collaborator_calls>>
    /\ UNCHANGED <<experiment_models, number_of_model, task, X_test, y_test,
                   results, csv_files>>

\* the number of places where two arrays of n entries agree
RECURSIVE CountEqual(_, _, _)
CountEqual(a, b, n) ==
    IF n = 0 THEN 0
    ELSE CountEqual(a, b, n - 1) + (IF a[n - 1] = b[n - 1] THEN 1 ELSE 0)

\* lines 155-182: stack, predict, the two accuracies, the row of the task
PredictAndScore ==
    /\ drv_pc = "infer"
    /\ Len(logits_outputs_for_different_tasks) = experiment_models.number_of_tasks
    /\ LET all_inferenced_tasks == Stack(logits_outputs_for_different_tasks)
           r == GetTaskAndClassPredictionBasedOnLogits(
                    all_inferenced_tasks, experiment_models.number_of_tasks,
                    experiment_models.dataset, experiment_models.vanilla_entropy)
           n == Len(r.predicted_tasks)
           tasks == [i \in 0 .. (n - 1) |-> r.predicted_tasks[i + 1]]
           classes == [i \in 0 .. (n - 1) |-> ClassValue(r.predicted_classes[i + 1])]
       IN  IF r.pc = "ValueError"
           THEN /\ drv_pc' = "ValueError"
                /\ UNCHANGED <<task, results>>
           ELSE /\ results' =
                       Append(results,
                              [task |-> task,
                               task_prediction_acc |->
                                   Percent(CountEqual(tasks, [i \in 0 .. (n - 1) |-> task], n), n),
                               class_prediction_acc |->
                                   Percent(CountEqual(classes, y_test, n),
                                           Cardinality(DOMAIN y_test))])
                /\ task' = task + 1
                /\ drv_pc' = "loop"
    /\ UNCHANGED <<experiment_models, number_of_model, X_test, y_test,
                   logits_outputs_for_different_tasks, csv_files,
                   collaborator_calls>>

\* the file written as soon as one row is there
ToCsvAfterFirstRow ==
    /\ drv_pc = "loop"
    /\ task >= 1
    /\ csv_files' = Append(csv_files, [model |-> number_of_model, rows |-> results])
    /\ drv_pc' = "saved"
    /\ UNCHANGED <<experiment_models, number_of_model, task, X_test, y_test,
                   logits_outputs_for_different_tasks, results,
                   collaborator_calls>>

\* lines 183-188: the table, then results.to_csv(f"...{number_of_model}.csv"):
\* the name of the file reads the global number_of_model, NameError without it
ToCsv ==
    /\ drv_pc = "loop"
    /\ task = experiment_models.number_of_tasks
    /\ IF number_of_model = {}
       THEN /\ drv_pc' = "NameError"
            /\ UNCHANGED csv_files
       ELSE /\ csv_files' = Append(csv_files,
                                   [model |-> number_of_model, rows |-> results])
            /\ drv_pc' = "saved"
    /\ UNCHANGED <<experiment_models, number_of_model, task, X_test, y_test,
                   logits_outputs_for_different_tasks, results,
                   collaborator_calls>>

\* return results
ReturnResults ==
    /\ drv_pc = "saved"
    /\ drv_pc' = "returned"
    /\ UNCHANGED <<experiment_models, number_of_model, task, X_test, y_test,
                   logits_outputs_for_different_tasks, results, csv_files,
                   collaborator_calls>>

InitDrv == InitDriver /\ PredictionIdle /\ ForwardIdle

NextDrv ==
    \/ ExtractTestSet /\ UNCHANGED <<predVars, fwdVars>>
    \/ ProduceLogits /\ UNCHANGED <<predVars, fwdVars>>
    \/ PredictAndScore /\ UNCHANGED <<predVars, fwdVars>>
    \/ ToCsv /\ UNCHANGED <<predVars, fwdVars>>
    \/ ReturnResults /\ UNCHANGED <<predVars, fwdVars>>

SpecDriver == InitDrv /\ [][NextDrv]_vars

--------------------------------------------------------------------------
(* Claims about calculate_entropy_and_predict_classes_separately *)

DriverEnded == drv_pc \in {"returned", "NameError", "ValueError", "CollaboratorError"}

\* C5: with a supported dataset and collaborators that all succeed the call
\* returns the table, one row per task 0 .. N-1 in increasing order, whatever
\* the variables outside the experiment bundle hold
C5_TablePerTask ==
    (DriverEnded /\ drv_pc # "CollaboratorError"
        /\ experiment_models.dataset \in SupportedDatasets) =>
            /\ drv_pc = "returned"
            /\ Len(results) = experiment_models.number_of_tasks
            /\ \A t \in 1 .. Len(results) : results[t].task = t - 1

\* the accuracy a is the share, in percent, of count among n
IsShare(a, count, n) ==
    /\ a.kind = "fin"
    /\ a.num = 100 * count /\ a.den = n
    /\ 0 <= a.num /\ a.num <= 100 * a.den
    /\ (a.num = 100 * a.den) <=> (count = n)

\* C6: the row of the task scored last holds the share of its n test samples
\* whose predicted task is that task and the share whose predicted class is
\* the label at the same place, both between 0% and 100% and 100% exactly
\* when every sample matches
C6_AccuraciesAreShares ==
    (drv_pc = "loop" /\ Len(results) > 0) =>
        LET row == results[Len(results)]
            r == GetTaskAndClassPredictionBasedOnLogits(
                     Stack(logits_outputs_for_different_tasks),
                     experiment_models.number_of_tasks,
                     experiment_models.dataset, experiment_models.vanilla_entropy)
            n == X_test
            hits == Cardinality({i \in 1 .. n : r.predicted_tasks[i] = row.task})
            right == Cardinality({i \in 1 .. n :
                         ClassValue(r.predicted_classes[i]) = y_test[i - 1]})
        IN  /\ IsShare(row.task_prediction_acc, hits, n)
            /\ IsShare(row.class_prediction_acc, right, n)

\* the calls of get_target_network_representation of the current pass
RepresentationCalls == Tail(collaborator_calls)

\* the logits of every candidate so far were produced once each, in increasing
\* order of the candidate, on the test batch of evaluation task t, and sit in
\* the list at the index of their candidate
ProducedInOrder(t) ==
    /\ collaborator_calls[1].fn = "extract_test_set_from_single_task"
    /\ collaborator_calls[1].task = t
    /\ Len(RepresentationCalls) = Len(logits_outputs_for_different_tasks)
    /\ \A k \in 1 .. Len(RepresentationCalls) :
           /\ RepresentationCalls[k].fn = "get_target_network_representation"
           /\ RepresentationCalls[k].inferenced_task = k - 1
           /\ RepresentationCalls[k].X_test = collaborator_calls[1].X_test
           /\ logits_outputs_for_different_tasks[k] = RepresentationCalls[k].logits

\* the task predicted for every sample is the candidate whose call gave the
\* logits of minimal uncertainty for that sample
SelectedIsMinimalCandidate ==
    LET r == GetTaskAndClassPredictionBasedOnLogits(
                 Stack(logits_outputs_for_different_tasks),
                 experiment_models.number_of_tasks,
                 experiment_models.dataset, experiment_models.vanilla_entropy)
        score(c, i) == TaskEntropy(RepresentationCalls[c + 1].logits[i],
                                   experiment_models.vanilla_entropy)
    IN  \A i \in 1 .. Len(r.predicted_tasks) :
            \A c \in 0 .. (experiment_models.number_of_tasks - 1) :
                FLeq(score(r.predicted_tasks[i], i - 1), score(c, i - 1))

\* C12: for each evaluation task the logits of every candidate task are
\* produced exactly once, in increasing order of the candidate, on the test
\* batch of that task, and stacked at the index of their candidate, so that
\* the task predicted for a sample is the candidate whose weights gave the
\* minimal uncertainty
C12_LogitsPerCandidateInOrder ==
    /\ drv_pc = "infer" => ProducedInOrder(task)
    /\ (drv_pc = "loop" /\ Len(results) > 0) =>
           /\ ProducedInOrder(results[Len(results)].task)
           /\ Len(RepresentationCalls) = experiment_models.number_of_tasks
           /\ SelectedIsMinimalCandidate

\* the call ended in an exception
DriverFailed == drv_pc \in {"CollaboratorError", "ValueError", "NameError"}

\* C13: an error is terminal: after a failure of loading the test set, of
\* producing logits or of predicting, the call takes no further step, so no
\* later task is evaluated, no table is returned and no file is written; the
\* file is written at most once, and only with the rows of all N tasks
C13_ErrorsTerminal ==
    [][/\ ~DriverFailed
       /\ DriverFailed' => (csv_files' = <<>> /\ drv_pc' # "returned")
       /\ drv_pc' = "returned" =>
              (Len(csv_files) = 1 /\ Len(results) = experiment_models.number_of_tasks)
       /\ Len(csv_files') <= 1
       /\ csv_files' # csv_files =>
              /\ csv_files = <<>>
              /\ Len(results) = experiment_models.number_of_tasks
              /\ csv_files'[1].rows = results
              /\ \A k \in 1 .. Len(results) : results[k].task = k - 1]_vars

\* C13 witness: a later task failed after the row of an earlier task had been
\* accumulated, and nothing was written
C13_Witness ==
    /\ drv_pc \in {"CollaboratorError", "ValueError"}
    /\ Len(results) >= 1
    /\ csv_files = <<>>

==========================================================================
